---- MODULE Spec2Model ----
(***************************************************************************)
(* Huffman coding as implemented in src/search/greedy/huffman.cc:          *)
(* freq -> nodes -> huffman -> codetable -> encode -> decode.              *)
(*                                                                         *)
(* Characters are their integer codes.  A Node is a record                 *)
(* [w, c, left, right]; a Node* is a sequence of length 0 (NULL) or 1      *)
(* (<<n>> points to n).  The forest ts holds the pointed-to nodes, and     *)
(* adr[i] is the rank of the pointer value ts[i] among the pointers that   *)
(* are in the forest: the code compares Node* values, never weights, and   *)
(* the order of addresses returned by operator new is unspecified.         *)
(*                                                                         *)
(* Spec is the construction (freq, nodes, huffman, codetable); CodecSpec   *)
(* adds encode and decode.  Reads of undefined behaviour (front() of an    *)
(* empty vector, *bits past the terminator) take any of their outcomes.    *)
(***************************************************************************)
EXTENDS Integers, Sequences, FiniteSets, TLC

\* ----- bounds of the model
NumSyms == 4
MaxLen == 4
MaxEnc == 2
MaxBits == 3
MaxOverrun == 1
MaxSpin == 6

\* ----- characters
NUL == 0
Zero == 48
One == 49

Chars == 1..NumSyms
Texts(n) == UNION {[1..k -> Chars] : k \in 0..n}
BitStrings(n) == UNION {[1..k -> {Zero, One}] : k \in 0..n}

VARIABLES
  pc,      \* position in the pipeline
  w,       \* the text the histogram is built from (test's w)
  hist,    \* map<char,int>
  ts,      \* huffman's vector<Node*>, as the nodes pointed to
  adr,     \* adr[i]: rank of the address ts[i] among the forest's pointers
  merges,  \* number of iterations of huffman's while loop so far
  tree,    \* the Node* returned by huffman
  codes,   \* CodeTab
  txt,     \* encode's argument w
  cs,      \* encode's result
  bits,    \* decode's argument (without its terminating NUL)
  bp,      \* decode's pointer into bits, 1-based; Len(bits)+1 is the NUL
  cur,     \* decode's t
  out,     \* decode's w
  iters    \* number of iterations of decode's outer loop so far

vars == <<pc, w, hist, ts, adr, merges, tree, codes, txt, cs, bits, bp, cur, out, iters>>

\* ----- Node
isleaf(a) == a.left = <<>> /\ a.right = <<>>

leaf(c, wt) == [w |-> wt, c |-> c, left |-> <<>>, right |-> <<>>]

\* merge that forgets the weight of b
mergeLeftWeight(a, b) == [w |-> a.w, c |-> NUL, left |-> <<a>>, right |-> <<b>>]

merge(a, b) == [w |-> a.w + b.w, c |-> NUL, left |-> <<a>>, right |-> <<b>>]

\* ----- the forest with its addresses: F = [ts |-> ..., adr |-> ...],
\* indexed from 0 as in the source
PtrLess(F, i, j) == F.adr[i + 1] < F.adr[j + 1]

\* std::min(a, b) on Node*: (b < a) ? b : a
min(F, i, j) == IF PtrLess(F, j, i) THEN j ELSE i

Exchange(F, i, j) ==
  [ts  |-> [F.ts  EXCEPT ![i + 1] = F.ts[j + 1],  ![j + 1] = F.ts[i + 1]],
   adr |-> [F.adr EXCEPT ![i + 1] = F.adr[j + 1], ![j + 1] = F.adr[i + 1]]]

\* swap that overwrites the target instead of exchanging
swapOverwrite(F, i, j, k) ==
  LET x == IF PtrLess(F, j, k) THEN k ELSE j
  IN [F EXCEPT !.ts[x + 1] = F.ts[i + 1], !.adr[x + 1] = F.adr[i + 1]]

swap(F, i, j, k) == Exchange(F, i, IF PtrLess(F, j, k) THEN k ELSE j)

\* the for loop of huffman, from index i down to 0
RECURSIVE scan(_, _)
scan(F, i) ==
  IF i < 0 THEN F
  ELSE LET n == Len(F.ts)
       IN scan(IF PtrLess(F, i, min(F, n - 1, n - 1)) THEN swap(F, i, n - 1, n - 2) ELSE F,
               i - 1)

\* ----- freq, nodes
Inc(h, c) == IF c \in DOMAIN h THEN [h EXCEPT ![c] = @ + 1] ELSE (c :> 1) @@ h

RECURSIVE freqFrom(_, _, _)
freqFrom(s, i, h) == IF i > Len(s) THEN h ELSE freqFrom(s, i + 1, Inc(h, s[i]))

freq(s) == freqFrom(s, 1, <<>>)

SmallestKey(keys) == CHOOSE k \in keys : \A m \in keys : k <= m

RECURSIVE nodesFrom(_, _)
nodesFrom(h, keys) ==
  IF keys = {} THEN <<>>
  ELSE LET k == SmallestKey(keys)
       IN <<leaf(k, h[k])>> \o nodesFrom(h, keys \ {k})

nodes(h) == nodesFrom(h, DOMAIN h)

\* the orders the addresses of n live nodes can be in
Ranks(n) == Permutations(1..n)

\* ----- codetable
\* codetab that appends "0" on both branches
RECURSIVE codetabSameBit(_, _, _)
codetabSameBit(t, b, tab) ==
  IF isleaf(t) THEN (t.c :> b) @@ tab
  ELSE codetabSameBit(t.right[1], b \o <<Zero>>, codetabSameBit(t.left[1], b \o <<Zero>>, tab))

RECURSIVE codetab(_, _, _)
codetab(t, b, tab) ==
  IF isleaf(t) THEN (t.c :> b) @@ tab
  ELSE codetab(t.right[1], b \o <<One>>, codetab(t.left[1], b \o <<Zero>>, tab))

codetable(t) == codetab(t, <<>>, <<>>)

\* ----- encode: operator[] of std::map inserts an empty string for a
\* missing key (into encode's own copy of the table)
RECURSIVE encodeFrom(_, _, _, _)
encodeFrom(tab, s, i, b) ==
  IF i > Len(s) THEN b
  ELSE LET tab2 == IF s[i] \in DOMAIN tab THEN tab ELSE (s[i] :> <<>>) @@ tab
       IN encodeFrom(tab2, s, i + 1, b \o tab2[s[i]])

encode(tab, s) == encodeFrom(tab, s, 1, <<>>)

\* ----- actions
Init ==
  /\ pc = "freq"
  /\ w \in Texts(MaxLen)
  /\ hist = <<>>
  /\ ts = <<>>
  /\ adr = <<>>
  /\ merges = 0
  /\ tree = <<>>
  /\ codes = <<>>
  /\ txt = <<>>
  /\ cs = <<>>
  /\ bits = <<>>
  /\ bp = 1
  /\ cur = <<>>
  /\ out = <<>>
  /\ iters = 0

Freq ==
  /\ pc = "freq"
  /\ hist' = freq(w)
  /\ pc' = "nodes"
  /\ UNCHANGED <<w, ts, adr, merges, tree, codes, txt, cs, bits, bp, cur, out, iters>>

Nodes ==
  /\ pc = "nodes"
  /\ ts' = nodes(hist)
  /\ adr' \in Ranks(Len(ts'))
  /\ pc' = "huffman"
  /\ UNCHANGED <<w, hist, merges, tree, codes, txt, cs, bits, bp, cur, out, iters>>

\* the ranks of the addresses after an iteration on a forest of n trees with
\* ranks a: the n - 2 pointers that stay keep their order, and the address of
\* the node merge allocates takes rank p among them
Realloc(a, n, p) ==
  [i \in 1..(n - 1) |->
     IF i = n - 1 THEN p
     ELSE LET k == 1 + Cardinality({j \in 1..(n - 2) : a[j] < a[i]})
          IN IF k >= p THEN k + 1 ELSE k]

\* one iteration of huffman's while loop
HuffmanIter ==
  /\ pc = "huffman"
  /\ Len(ts) > 1
  /\ \E F \in {scan([ts |-> ts, adr |-> adr], Len(ts) - 3)} :
       LET n == Len(ts)
       IN /\ ts' = [i \in 1..(n - 1) |->
                      IF i = n - 1 THEN merge(F.ts[n], F.ts[n - 1]) ELSE F.ts[i]]
          /\ \E p \in 1..(n - 1) : adr' = Realloc(F.adr, n, p)
  /\ merges' = merges + 1
  /\ UNCHANGED <<pc, w, hist, tree, codes, txt, cs, bits, bp, cur, out, iters>>

\* return ts.front(); on an empty vector this is undefined behaviour
HuffmanReturn ==
  /\ pc = "huffman"
  /\ Len(ts) <= 1
  /\ IF Len(ts) = 1
       THEN tree' = <<ts[1]>> /\ pc' = "tree"
       ELSE \/ tree' = <<>> /\ pc' = "tree"
            \/ tree' = tree /\ pc' = "crash"
  /\ UNCHANGED <<w, hist, ts, adr, merges, codes, txt, cs, bits, bp, cur, out, iters>>

\* CodeTab codes = codetable(tr); isleaf(NULL) dereferences a null pointer
Codetable ==
  /\ pc = "tree"
  /\ IF tree = <<>>
       THEN codes' = codes /\ pc' = "crash"
       ELSE codes' = codetable(tree[1]) /\ pc' = "table"
  /\ UNCHANGED <<w, hist, ts, adr, merges, tree, txt, cs, bits, bp, cur, out, iters>>

\* tree construction and code table: huffman(nodes(freq(w))), codetable(tr)
Next ==
  \/ Freq
  \/ Nodes
  \/ HuffmanIter
  \/ HuffmanReturn
  \/ Codetable

Spec == Init /\ [][Next]_vars

\* string cs = encode(codes, s), for the text w itself or any short text
Encode ==
  /\ pc = "table"
  /\ \E s \in {w} \cup Texts(MaxEnc) :
       /\ txt' = s
       /\ cs' = encode(codes, s)
  /\ pc' = "encoded"
  /\ UNCHANGED <<w, hist, ts, adr, merges, tree, codes, bits, bp, cur, out, iters>>

\* entry of decode(tr, b): string w
DecodeCall(b) ==
  /\ bits' = b
  /\ bp' = 1
  /\ out' = <<>>
  /\ iters' = 0
  /\ cur' = <<>>
  /\ pc' = "dec_outer"
  /\ UNCHANGED <<w, hist, ts, adr, merges, tree, codes, txt, cs>>

\* decode(tr, cs.c_str())
DecodeEncoded ==
  /\ pc = "encoded"
  /\ DecodeCall(cs)

\* decode(tr, b) for any short bit-string b
DecodeRaw ==
  /\ pc = "table"
  /\ \E b \in BitStrings(MaxBits) : DecodeCall(b)

\* the values *bits can have when bits points at position p: a character of
\* the string, its terminating NUL, or, past the terminator, any byte
ByteAt(b, p) ==
  IF p <= Len(b) THEN {b[p]}
  ELSE IF p = Len(b) + 1 THEN {NUL}
  ELSE {NUL, Zero, One}

PastEnd(b, p) == p > Len(b) + 1

\* while (*bits) { Node* t = root; ... } return w;
DecodeOuter ==
  /\ pc = "dec_outer"
  /\ \/ /\ bp <= Len(bits) + 1 + MaxOverrun
        /\ \E ch \in ByteAt(bits, bp) :
             IF ch # NUL
               THEN /\ iters < MaxSpin
                    /\ cur' = tree
                    /\ iters' = iters + 1
                    /\ pc' = "dec_inner"
               ELSE /\ pc' = "done"
                    /\ UNCHANGED <<cur, iters>>
     \/ /\ PastEnd(bits, bp)
        /\ pc' = "crash"
        /\ UNCHANGED <<cur, iters>>
  /\ UNCHANGED <<w, hist, ts, adr, merges, tree, codes, txt, cs, bits, bp, out>>

\* while (!isleaf(t)) t = '0' == *bits++ ? t->left : t->right;  w += t->c;
DecodeInner ==
  /\ pc = "dec_inner"
  /\ IF isleaf(cur[1])
       THEN /\ out' = Append(out, cur[1].c)
            /\ pc' = "dec_outer"
            /\ UNCHANGED <<cur, bp>>
       ELSE \/ /\ bp <= Len(bits) + 1 + MaxOverrun
               /\ \E ch \in ByteAt(bits, bp) :
                    cur' = IF Zero = ch THEN cur[1].left ELSE cur[1].right
               /\ bp' = bp + 1
               /\ UNCHANGED <<pc, out>>
            \/ /\ PastEnd(bits, bp)
               /\ pc' = "crash"
               /\ UNCHANGED <<cur, bp, out>>
  /\ UNCHANGED <<w, hist, ts, adr, merges, tree, codes, txt, cs, bits, iters>>

\* encode and decode on top of the construction
CodecNext ==
  \/ Next
  \/ Encode
  \/ DecodeEncoded
  \/ DecodeRaw
  \/ DecodeOuter
  \/ DecodeInner

CodecSpec == Init /\ [][CodecNext]_vars

\* ----- measures used by the properties
N == Cardinality(DOMAIN hist)

RECURSIVE SumW(_)
SumW(s) == IF s = <<>> THEN 0 ELSE Head(s).w + SumW(Tail(s))

RECURSIVE Total(_, _)
Total(h, keys) ==
  IF keys = {} THEN 0
  ELSE LET k == SmallestKey(keys) IN h[k] + Total(h, keys \ {k})

\* the leaves of a tree, left to right
RECURSIVE LeafSeq(_)
LeafSeq(t) == IF isleaf(t) THEN <<t>> ELSE LeafSeq(t.left[1]) \o LeafSeq(t.right[1])

RECURSIVE ForestLeaves(_)
ForestLeaves(s) == IF s = <<>> THEN <<>> ELSE LeafSeq(Head(s)) \o ForestLeaves(Tail(s))

Range(s) == {s[i] : i \in DOMAIN s}

IsPrefix(a, b) == Len(a) <= Len(b) /\ SubSeq(b, 1, Len(a)) = a

RECURSIVE CeilLog2From(_, _, _)
CeilLog2From(n, k, p) == IF p >= n THEN k ELSE CeilLog2From(n, k + 1, 2 * p)

CeilLog2(n) == CeilLog2From(n, 0, 1)

RECURSIVE WeightedLength(_, _, _)
WeightedLength(h, tab, keys) ==
  IF keys = {} THEN 0
  ELSE LET k == SmallestKey(keys)
       IN h[k] * Len(tab[k]) + WeightedLength(h, tab, keys \ {k})

\* C1: round trip.  When decode has returned for the bit-string that encode
\* produced from the non-empty text w, with the tree and table built from
\* freq(w), the decoded text equals w.
C1_RoundTrip ==
  (pc = "done" /\ w # <<>> /\ txt = w /\ bits = cs) => out = w

\* C2: greedy selection.  After every iteration of huffman's loop the node
\* just built (the last of the forest) has as children two trees of smallest
\* weight: no tree left in the forest is lighter than either child.
C2_GreedySelection ==
  (pc = "huffman" /\ merges >= 1) =>
    LET m == ts[Len(ts)]
    IN \A i \in 1..(Len(ts) - 1) :
         ts[i].w >= m.left[1].w /\ ts[i].w >= m.right[1].w

\* C3: prefix-free.  In the table codetable builds from huffman's tree, no
\* symbol's code is a prefix of another symbol's code.
C3_PrefixFree ==
  pc = "table" =>
    \A x, y \in DOMAIN codes : x # y => ~IsPrefix(codes[x], codes[y])

C3_Witness == pc = "table" /\ Cardinality(DOMAIN codes) >= 3

\* C4: weight conservation.  Throughout huffman's loop the weights of the
\* roots in the forest add up to the sum of the input frequencies, and every
\* iteration has made the forest one element shorter.
C4_WeightConservation ==
  pc = "huffman" =>
    /\ SumW(ts) = Total(hist, DOMAIN hist)
    /\ Len(ts) = N - merges

C4_Witness == pc = "huffman" /\ merges >= 2 /\ Len(ts) >= 2

\* C5: encode of a text with a symbol that has no entry in the code table
\* fails with UnknownSymbol instead of returning a bit-string.
C5_UnknownSymbol ==
  (pc = "encoded" /\ \E i \in DOMAIN txt : txt[i] \notin DOMAIN codes) => pc = "UnknownSymbol"

\* C6: when the bit-string ends while decode's walk is at an internal node,
\* decode fails with TruncatedInput: it does not move past the terminator
\* and returns nothing.
C6_TruncatedInput ==
  [][(pc = "dec_inner" /\ ~isleaf(cur[1]) /\ bp = Len(bits) + 1)
       => (pc' = "TruncatedInput" /\ bp' = bp)]_vars

\* C7: huffman on an empty forest fails with EmptyInput; on N >= 1 trees it
\* returns a tree, and for N = 1 that tree is the single leaf unchanged.
C7_EmptyInput ==
  /\ (pc \notin {"freq", "nodes", "huffman"} /\ N = 0) => pc = "EmptyInput"
  /\ (pc = "tree" /\ N >= 1) => tree # <<>>
  /\ (pc = "tree" /\ N = 1) => tree = <<nodes(hist)[1]>>

\* C8: termination within a number of steps bounded by the input.  huffman's
\* loop runs at most N - 1 times, and while decode's pointer is inside the
\* bit-string its outer loop has run at most once per bit.
C8_Terminates ==
  /\ merges <= (IF N = 0 THEN 0 ELSE N - 1)
  /\ (pc \in {"dec_outer", "dec_inner"} /\ ~PastEnd(bits, bp)) => iters <= Len(bits)

\* C9: weak optimality.  For N >= 2 symbols the weighted code length is at
\* most ceil(log2(N)) times the sum of the frequencies.
C9_WeakOptimality ==
  (pc = "table" /\ N >= 2) =>
    WeightedLength(hist, codes, DOMAIN hist) <= CeilLog2(N) * Total(hist, DOMAIN hist)

\* C10: leaf count.  Throughout huffman's loop the leaves of the forest, and
\* on return the leaves of the tree, are exactly the N original leaves, each
\* once.
C10_LeafCount ==
  /\ pc = "huffman" =>
       /\ Len(ForestLeaves(ts)) = N
       /\ Range(ForestLeaves(ts)) = {leaf(c, hist[c]) : c \in DOMAIN hist}
  /\ (pc = "tree" /\ N >= 1) =>
       /\ tree # <<>>
       /\ Len(LeafSeq(tree[1])) = N
       /\ Range(LeafSeq(tree[1])) = {leaf(c, hist[c]) : c \in DOMAIN hist}

\* the first tree of the forest was swapped into the first merge
C10_Witness ==
  /\ pc = "tree"
  /\ N = 3
  /\ ~isleaf(tree[1].left[1])
  /\ nodes(hist)[1] \in {tree[1].left[1].left[1], tree[1].left[1].right[1]}

====
